---- MODULE Spec2Model ----
(***************************************************************************)
(* Model of python/parakeet_transcribe.py: the long-audio chunking,        *)
(* overlap stitching and sentence segmentation of the Parakeet TDT         *)
(* transcription service.                                                  *)
(*                                                                         *)
(* Representation.  Times (Python floats, in seconds) are integers counted *)
(* in ticks of 0.01 s, so that 0.16 s is 16 ticks and 15.0 s is 1500       *)
(* ticks.  A string is a sequence of one-character strings.  An audio      *)
(* array is represented by its length in samples; a slice audio[a:b] by    *)
(* the pair (a, b).                                                        *)
(***************************************************************************)
EXTENDS Integers, Sequences, FiniteSets, TLC

VARIABLES
    pc,               \* position of the running function
    total_samples,    \* len(audio)
    chunk_duration,   \* chunk_duration argument, in ticks
    overlap_duration, \* overlap_duration argument, in ticks
    sample_rate,      \* sample_rate argument, samples per second
    chunks,           \* list returned by chunk_audio
    tokens,           \* tokens argument of tokens_to_sentences
    timestamps,       \* timestamps argument of tokens_to_sentences
    sentences,        \* list returned by tokens_to_sentences / the pipeline
    i,                \* loop index of the chunk loop (0-based, as in the code)
    all_tokens,       \* all_tokens of transcribe_with_chunking
    all_timestamps,   \* all_timestamps of transcribe_with_chunking
    results           \* recognition results returned so far, in call order

vars == <<pc, total_samples, chunk_duration, overlap_duration, sample_rate,
          chunks, tokens, timestamps, sentences, i, all_tokens,
          all_timestamps, results>>

Min(a, b) == IF a < b THEN a ELSE b

(***************************************************************************)
(* Bounds of the model.                                                    *)
(***************************************************************************)
MaxSamples == 12       \* chunk_audio: audio lengths 0 .. MaxSamples
MaxChunkTicks == 4     \* chunk_audio: chunk_duration 0 .. MaxChunkTicks ticks
MaxLen == 3            \* tokens_to_sentences: at most MaxLen tokens
MaxTs == 2             \* tokens_to_sentences: timestamps 0 .. MaxTs ticks
MaxTokens == 2         \* pipeline: at most MaxTokens tokens per window
Jitter == 1            \* pipeline: timing jitter between two windows, ticks

(***************************************************************************)
(* Program constants.                                                      *)
(***************************************************************************)
DefaultSampleRate == 16000       \* sample_rate=16000
DefaultChunkDuration == 12000    \* chunk_duration=120.0
OverlapDuration == 1500          \* overlap_duration=15.0, overlap_time = 15.0
TokenDurationEstimate == 16      \* ts + 0.16

(***************************************************************************)
(* chunk_audio                                                             *)
(***************************************************************************)

\* int(duration * sample_rate), with the duration given in ticks
DurationToSamples(duration, sr) == (duration * sr) \div 100

\* start / sample_rate, as ticks
SamplesToTime(n, sr) == (n * 100) \div sr

\* stride = chunk_samples - overlap_samples, with the operands swapped in sign
StridePlus(chunk_samples, overlap_samples) == chunk_samples + overlap_samples

\* stride = chunk_samples - overlap_samples
Stride(chunk_samples, overlap_samples) == chunk_samples - overlap_samples

\* the tuple (chunk, start_time, end_time) appended to chunks; the slice
\* audio[start:end] is kept as its sample range
Window(start, end, sr) ==
    [start |-> start, end |-> end,
     start_time |-> SamplesToTime(start, sr),
     end_time |-> SamplesToTime(end, sr)]

RECURSIVE chunk_loop_nobreak(_, _, _, _, _)
\* the loop of chunk_audio without its "if end >= len(audio): break"
chunk_loop_nobreak(start, n, chunk_samples, stride, sr) ==
    IF start >= n THEN <<>>
    ELSE LET end == Min(start + chunk_samples, n)
         IN  <<Window(start, end, sr)>>
             \o chunk_loop_nobreak(start + stride, n, chunk_samples, stride, sr)

RECURSIVE chunk_loop(_, _, _, _, _)
\* for start in range(0, len(audio), stride): ... (stride > 0)
chunk_loop(start, n, chunk_samples, stride, sr) ==
    IF start >= n THEN <<>>
    ELSE LET end == Min(start + chunk_samples, n)
         IN  <<Window(start, end, sr)>>
             \o (IF end >= n THEN <<>>
                 ELSE chunk_loop(start + stride, n, chunk_samples, stride, sr))

\* chunk_audio(audio, chunk_duration, overlap_duration, sample_rate).
\* range(0, n, 0) raises ValueError; range(0, n, s) with s < 0 and n >= 0 is
\* empty, so the function returns [] without raising.
chunk_audio(n, cd, od, sr) ==
    LET chunk_samples == DurationToSamples(cd, sr)
        overlap_samples == DurationToSamples(od, sr)
        stride == Stride(chunk_samples, overlap_samples)
    IN  IF stride = 0 THEN [raised |-> TRUE, chunks |-> <<>>]
        ELSE IF stride < 0 THEN [raised |-> FALSE, chunks |-> <<>>]
        ELSE [raised |-> FALSE,
              chunks |-> chunk_loop(0, n, chunk_samples, stride, sr)]

(***************************************************************************)
(* Specification SpecChunk: chunk_audio applied to bounded inputs.         *)
(***************************************************************************)
ChunkRates == {50, 100, 200}

InitChunk ==
    /\ pc = "call"
    /\ \/ /\ sample_rate \in ChunkRates
          /\ chunk_duration \in 0 .. MaxChunkTicks
          /\ overlap_duration \in 0 .. MaxChunkTicks
          /\ total_samples \in (0 .. MaxSamples)
                 \cup {10 * DurationToSamples(chunk_duration, sample_rate)}
       \/ /\ sample_rate = DefaultSampleRate
          /\ total_samples \in {k * 60 * DefaultSampleRate : k \in 1 .. 5}
          /\ chunk_duration = DefaultChunkDuration
          /\ overlap_duration = OverlapDuration
    /\ chunks = <<>>
    /\ tokens = <<>>
    /\ timestamps = <<>>
    /\ sentences = <<>>
    /\ i = 0
    /\ all_tokens = <<>>
    /\ all_timestamps = <<>>
    /\ results = <<>>

ChunkAudio ==
    /\ pc = "call"
    /\ LET r == chunk_audio(total_samples, chunk_duration, overlap_duration,
                            sample_rate)
       IN  /\ chunks' = r.chunks
           /\ pc' = IF r.raised THEN "raised" ELSE "returned"
    /\ UNCHANGED <<total_samples, chunk_duration, overlap_duration,
                   sample_rate, tokens, timestamps, sentences, i, all_tokens,
                   all_timestamps, results>>

NextChunk == ChunkAudio

SpecChunk == InitChunk /\ [][NextChunk]_vars

(***************************************************************************)
(* Properties of chunk_audio (checked under SpecChunk).                    *)
(***************************************************************************)
ArgChunkSamples == (chunk_duration * sample_rate) \div 100
ArgOverlapSamples == (overlap_duration * sample_rate) \div 100
ArgStride == ArgChunkSamples - ArgOverlapSamples

\* Every sample index of [0, n) lies in some window (only evaluated for
\* the small audio lengths).
SamplesCovered ==
    total_samples <= 10 * MaxSamples =>
        \A s \in 0 .. total_samples - 1 :
            \E k \in 1 .. Len(chunks) :
                chunks[k].start <= s /\ s < chunks[k].end

\* C1: with stride > 0, chunk_audio returns (does not raise) and the sample
\* ranges of its windows, in order, cover [0, total_samples) without a gap:
\* the first window starts at 0, each later window starts at or before the
\* end of the one before it, the last window ends at total_samples, and no
\* window is returned only when there is no sample.
C1_WindowsCoverAudio ==
    (pc # "call" /\ ArgStride > 0) =>
        /\ pc = "returned"
        /\ chunks = <<>> => total_samples = 0
        /\ chunks # <<>> =>
              /\ chunks[1].start = 0
              /\ \A k \in 2 .. Len(chunks) :
                    chunks[k].start <= chunks[k - 1].end
              /\ chunks[Len(chunks)].end = total_samples
        /\ SamplesCovered

\* C1 witness: a call with a positive overlap that returned at least three
\* windows, the last one clipped to the end of the audio.
C1_Witness ==
    /\ pc = "returned"
    /\ ArgStride > 0
    /\ ArgOverlapSamples > 0
    /\ Len(chunks) >= 3
    /\ chunks[Len(chunks)].end - chunks[Len(chunks)].start < ArgChunkSamples
    /\ chunks[Len(chunks)].end = total_samples

\* The 300 s scenario: chunk 120 s, overlap 15 s at 16 kHz.
Scenario300 ==
    /\ sample_rate = DefaultSampleRate
    /\ chunk_duration = DefaultChunkDuration
    /\ overlap_duration = OverlapDuration
    /\ total_samples = 300 * DefaultSampleRate

\* C10: for total_samples > chunk_samples and stride > 0, chunk_audio
\* returns exactly the windows k = 0 .. n-1 with start_k = k * stride and
\* end_k = min(start_k + chunk_samples, total_samples), where n-1 is the
\* smallest k with start_k + chunk_samples >= total_samples; no window
\* starts at or after total_samples; and 300 s of audio at chunk 120 s,
\* overlap 15 s gives exactly [0,120), [105,225), [210,300).
C10_ExactWindows ==
    (pc # "call" /\ ArgStride > 0 /\ total_samples > ArgChunkSamples) =>
        /\ pc = "returned"
        /\ Len(chunks) >= 2
        /\ \A k \in 1 .. Len(chunks) :
              /\ chunks[k].start = (k - 1) * ArgStride
              /\ chunks[k].end =
                    Min(chunks[k].start + ArgChunkSamples, total_samples)
              /\ chunks[k].start < total_samples
              /\ (k < Len(chunks)) =
                    (chunks[k].start + ArgChunkSamples < total_samples)
        /\ Scenario300 =>
              /\ Len(chunks) = 3
              /\ \A k \in 1 .. 3 :
                    /\ chunks[k].start_time = (k - 1) * 10500
                    /\ chunks[k].end_time = Min((k - 1) * 10500 + 12000, 30000)
                    /\ chunks[k].start = chunks[k].start_time * 160
                    /\ chunks[k].end = chunks[k].end_time * 160

\* C10 witness: the 300 s scenario has returned its three windows.
C10_Witness ==
    /\ pc = "returned"
    /\ Scenario300
    /\ Len(chunks) = 3
    /\ chunks[3].end - chunks[3].start < ArgChunkSamples

(***************************************************************************)
(* tokens_to_sentences                                                     *)
(***************************************************************************)

\* sentence_end_puncts = {'.', '!', '?'}
sentence_end_puncts == {".", "!", "?"}

\* the whitespace characters str.strip() removes (one stands for all)
Whitespace == {" "}

RECURSIVE LStrip(_)
LStrip(s) ==
    IF s # <<>> /\ Head(s) \in Whitespace THEN LStrip(Tail(s)) ELSE s

RECURSIVE RStrip(_)
RStrip(s) ==
    IF s # <<>> /\ s[Len(s)] \in Whitespace
    THEN RStrip(SubSeq(s, 1, Len(s) - 1))
    ELSE s

\* str.strip()
Strip(s) == RStrip(LStrip(s))

RECURSIVE Join(_)
\* ''.join(strs)
Join(strs) == IF strs = <<>> THEN <<>> ELSE Head(strs) \o Join(Tail(strs))

\* any(token.strip().endswith(p) for p in sentence_end_puncts)
is_sentence_end(token) ==
    LET t == Strip(token)
    IN  t # <<>> /\ t[Len(t)] \in sentence_end_puncts

\* "is_sentence_end or is_last_token" without the last-token clause
ShouldCloseNoLast(toks, k) == is_sentence_end(toks[k])

\* is_sentence_end or is_last_token, for the k-th token (k = i + 1)
ShouldClose(toks, k) == is_sentence_end(toks[k]) \/ k = Len(toks)

\* the end time taken from the closing token itself instead of the next one
CurrentEndOffByOne(ts, k) ==
    IF k < Len(ts) THEN ts[k] ELSE ts[k] + TokenDurationEstimate

\* the end time of the last sentence without the duration estimate
CurrentEndNoEstimate(ts, k) ==
    IF k < Len(ts) THEN ts[k + 1] ELSE ts[k]

\* current_end: timestamps[i + 1] if i + 1 < len(timestamps) else ts + 0.16
CurrentEnd(ts, k) ==
    IF k < Len(ts) THEN ts[k + 1] ELSE ts[k] + TokenDurationEstimate

RECURSIVE sentence_loop(_, _, _, _, _, _)
\* for i, (token, ts) in enumerate(zip(tokens, timestamps)), at k = i + 1,
\* with the loop's locals sents, current_tokens, current_start
sentence_loop(toks, ts, k, sents, current_tokens, current_start) ==
    IF k > Min(Len(toks), Len(ts)) THEN sents
    ELSE LET buffer == Append(current_tokens, toks[k])
         IN  IF ShouldClose(toks, k)
             THEN LET text == Strip(Join(buffer))
                      sents2 ==
                          IF text # <<>>
                          THEN Append(sents, [text |-> text,
                                              start |-> current_start,
                                              end |-> CurrentEnd(ts, k)])
                          ELSE sents
                      start2 == IF k < Len(ts) THEN ts[k + 1]
                                ELSE current_start
                  IN  sentence_loop(toks, ts, k + 1, sents2, <<>>, start2)
             ELSE sentence_loop(toks, ts, k + 1, sents, buffer, current_start)

\* tokens_to_sentences(tokens, timestamps)
tokens_to_sentences(toks, ts) ==
    IF toks = <<>> \/ ts = <<>> THEN <<>>
    ELSE sentence_loop(toks, ts, 1, <<>>, <<>>, ts[1])

(***************************************************************************)
(* Specification SpecSeg: tokens_to_sentences applied to bounded token     *)
(* streams (token and timestamp lists of equal length).                    *)
(***************************************************************************)
Vocab == { <<" ">>, <<"a">>, <<" ", "b">>, <<"c", ".">>, <<"?", " ">>,
           <<"!", "e">> }

SeqsUpTo(S, n) == UNION { [1 .. m -> S] : m \in 0 .. n }

InitSeg ==
    /\ pc = "call"
    /\ tokens \in SeqsUpTo(Vocab, MaxLen)
    /\ timestamps \in [1 .. Len(tokens) -> 0 .. MaxTs]
    /\ sentences = <<>>
    /\ total_samples = 0
    /\ chunk_duration = 0
    /\ overlap_duration = 0
    /\ sample_rate = DefaultSampleRate
    /\ chunks = <<>>
    /\ i = 0
    /\ all_tokens = <<>>
    /\ all_timestamps = <<>>
    /\ results = <<>>

TokensToSentences ==
    /\ pc = "call"
    /\ sentences' = tokens_to_sentences(tokens, timestamps)
    /\ pc' = "returned"
    /\ UNCHANGED <<total_samples, chunk_duration, overlap_duration,
                   sample_rate, chunks, tokens, timestamps, i, all_tokens,
                   all_timestamps, results>>

NextSeg == TokensToSentences

SpecSeg == InitSeg /\ [][NextSeg]_vars

(***************************************************************************)
(* Properties of tokens_to_sentences (checked under SpecSeg).              *)
(***************************************************************************)
NonDecreasing(ts) == \A k \in 1 .. Len(ts) - 1 : ts[k] <= ts[k + 1]

\* the k-th token closes a sentence
Closes(k) == is_sentence_end(tokens[k]) \/ k = Len(tokens)

\* sentence s is made of exactly the tokens a .. b: a opens a sentence, b is
\* the first closing token from a on, start is the timestamp of token a, end
\* the timestamp of token b + 1, or that of b plus 0.16 s when b is the last
IsSentenceOf(s, a, b) ==
    /\ a <= b
    /\ a = 1 \/ Closes(a - 1)
    /\ Closes(b)
    /\ \A k \in a .. b - 1 : ~Closes(k)
    /\ s.text = Strip(Join(SubSeq(tokens, a, b)))
    /\ s.start = timestamps[a]
    /\ s.end = IF b < Len(tokens) THEN timestamps[b + 1]
               ELSE timestamps[b] + 16

\* C7: for non-decreasing timestamps, every returned sentence has
\* start <= end, the sentences are in non-decreasing start order, and each
\* sentence starts at the timestamp of its first token and ends at the
\* timestamp of the token after its closing token (closing timestamp + 0.16
\* for the final one).
C7_SentenceTimesOrdered ==
    (pc = "returned" /\ NonDecreasing(timestamps)) =>
        /\ \A j \in 1 .. Len(sentences) :
              /\ sentences[j].start <= sentences[j].end
              /\ \E a \in 1 .. Len(tokens) : \E b \in a .. Len(tokens) :
                    IsSentenceOf(sentences[j], a, b)
        /\ \A j \in 1 .. Len(sentences) - 1 :
              sentences[j].start <= sentences[j + 1].start

\* C7 witness: a stream with rising timestamps that gave two sentences, the
\* first of them closed by a punctuation token that is not the last token.
C7_Witness ==
    /\ pc = "returned"
    /\ NonDecreasing(timestamps)
    /\ Len(tokens) = 3
    /\ timestamps[1] < timestamps[3]
    /\ Len(sentences) = 2
    /\ sentences[1].end < sentences[2].end

RemoveWhitespace(s) == SelectSeq(s, LAMBDA c : c \notin Whitespace)

RECURSIVE SpaceJoined(_)
\* ' '.join(sentence texts)
SpaceJoined(sents) ==
    IF sents = <<>> THEN <<>>
    ELSE IF Len(sents) = 1 THEN sents[1].text
    ELSE sents[1].text \o <<" ">> \o SpaceJoined(Tail(sents))

ContainsPunct(token) == \E k \in 1 .. Len(token) : token[k] \in sentence_end_puncts

\* C8: for a token stream holding at least one sentence-ending punctuation
\* mark, the sentence texts, space-joined in order, equal the concatenated
\* tokens once whitespace is removed from both.
C8_RoundTrip ==
    (pc = "returned" /\ \E k \in 1 .. Len(tokens) : ContainsPunct(tokens[k])) =>
        RemoveWhitespace(SpaceJoined(sentences))
            = RemoveWhitespace(Join(tokens))

\* C8 witness: a stream with a sentence-ending token followed by further
\* text, and a whitespace-only token, returned as two sentences.
C8_Witness ==
    /\ pc = "returned"
    /\ Len(tokens) = 3
    /\ is_sentence_end(tokens[1])
    /\ tokens[2] = <<" ">>
    /\ ~is_sentence_end(tokens[3])
    /\ Len(sentences) = 2

\* C9 as stated: an empty stream gives no sentence, and every single-token
\* stream whose token has no sentence-ending punctuation gives exactly one
\* sentence, from the token's timestamp to that timestamp + 0.16.
C9_AsStated ==
    pc = "returned" =>
        /\ tokens = <<>> => sentences = <<>>
        /\ (Len(tokens) = 1 /\ ~ContainsPunct(tokens[1])) =>
              /\ Len(sentences) = 1
              /\ sentences[1].start = timestamps[1]
              /\ sentences[1].end = timestamps[1] + 16

\* C9 amended: an empty stream gives no sentence; a single-token stream
\* whose token has no sentence-ending punctuation gives exactly one
\* sentence, from the token's timestamp to that timestamp + 0.16, when the
\* token has non-whitespace text, and no sentence when the token is empty or
\* whitespace only.
C9_Degenerate ==
    pc = "returned" =>
        /\ tokens = <<>> => sentences = <<>>
        /\ (Len(tokens) = 1 /\ ~ContainsPunct(tokens[1])) =>
              IF Strip(tokens[1]) # <<>>
              THEN /\ Len(sentences) = 1
                   /\ sentences[1].text = Strip(tokens[1])
                   /\ sentences[1].start = timestamps[1]
                   /\ sentences[1].end = timestamps[1] + 16
              ELSE sentences = <<>>

\* C9 witness: a single token with text and no punctuation, at a timestamp
\* other than 0, was returned as one sentence.
C9_Witness ==
    /\ pc = "returned"
    /\ Len(tokens) = 1
    /\ ~ContainsPunct(tokens[1])
    /\ Strip(tokens[1]) # <<>>
    /\ timestamps[1] > 0
    /\ Len(sentences) = 1

(***************************************************************************)
(* transcribe_with_chunking and main                                       *)
(***************************************************************************)

\* duration = len(audio) / 16000.0, in ticks
Duration(n) == (n * 100) \div DefaultSampleRate

\* adjusted_timestamps = [ts + chunk_start for ts in result.timestamps]
Adjusted(ts, chunk_start) == [k \in 1 .. Len(ts) |-> ts[k] + chunk_start]

\* the filter of the overlap region with no test at all
KeepAll(ts, overlap_end, last_prev_time) == TRUE

\* if ts >= overlap_end or ts > last_prev_time
Keep(ts, overlap_end, last_prev_time) ==
    ts >= overlap_end \/ ts > last_prev_time

RECURSIVE KeptIndices(_, _, _, _, _)
\* for token, ts in zip(result.tokens, adjusted_timestamps): the positions
\* (from k on) whose token is appended to filtered_tokens
KeptIndices(k, n, adj, overlap_end, last_prev_time) ==
    IF k > n THEN <<>>
    ELSE (IF Keep(adj[k], overlap_end, last_prev_time) THEN <<k>> ELSE <<>>)
         \o KeptIndices(k + 1, n, adj, overlap_end, last_prev_time)

\* One pass of the chunk loop body for a result that has tokens and
\* timestamps: the new (all_tokens, all_timestamps).
Merge(idx, chunk_start, result, toks, tss) ==
    LET adj == Adjusted(result.timestamps, chunk_start)
    IN  IF idx > 0 /\ tss # <<>>
        THEN LET last_prev_time == tss[Len(tss)]
                 overlap_end == chunk_start + OverlapDuration
                 kept == KeptIndices(1, Min(Len(result.tokens), Len(adj)),
                                     adj, overlap_end, last_prev_time)
             IN  [tokens |-> toks \o [k \in 1 .. Len(kept) |->
                                          result.tokens[kept[k]]],
                  timestamps |-> tss \o [k \in 1 .. Len(kept) |->
                                             adj[kept[k]]]]
        ELSE [tokens |-> toks \o result.tokens,
              timestamps |-> tss \o adj]

(***************************************************************************)
(* The recognizer (asr.recognize) is external: each call returns a result  *)
(* with tokens and timestamps (of any two lengths), a result with only a   *)
(* text, or raises.                                                        *)
(***************************************************************************)
Words == { <<"a", ".">> }

\* texts of the results that carry no tokens
Texts == { <<"h", "i", ".">> }

\* window-local timestamps a result may carry: 0 s, 10 s, 10 s plus the
\* jitter, 15 s, 25 s (the last lies beyond every window of these runs)
LocalTimes == {0, 1000, 1000 + Jitter, 1500, 2500}

SortedSeqsUpTo(S, n) == { q \in SeqsUpTo(S, n) : NonDecreasing(q) }

\* results with tokens and timestamps: lists of equal length, and lists of
\* two different lengths
TokenResults ==
    { r \in [kind : {"tokens"},
             tokens : SeqsUpTo(Words, MaxTokens),
             timestamps : SortedSeqsUpTo(LocalTimes, MaxTokens)] :
          \/ Len(r.tokens) = Len(r.timestamps)
          \/ \A k \in 1 .. Len(r.timestamps) : r.timestamps[k] = 1000 }

RecognizerResults ==
    TokenResults
    \cup { [kind |-> "text", text |-> t] : t \in Texts }
    \cup { [kind |-> "raise"] }

\* audio lengths of the pipeline runs, in seconds of 16 kHz audio
AudioSeconds == {0, 5, 25, 30}

\* --chunk-duration values of the runs, in ticks: 10 s, 15 s, 20 s
ChunkDurations == {1000, 1500, 2000}

Init ==
    /\ pc = "start"
    /\ sample_rate = DefaultSampleRate
    /\ overlap_duration = OverlapDuration
    /\ chunk_duration \in ChunkDurations
    /\ total_samples \in { sec * DefaultSampleRate : sec \in AudioSeconds }
    /\ chunks = <<>>
    /\ tokens = <<>>
    /\ timestamps = <<>>
    /\ sentences = <<>>
    /\ i = 0
    /\ all_tokens = <<>>
    /\ all_timestamps = <<>>
    /\ results = <<>>

\* if duration <= chunk_duration: result = asr.recognize(audio_path) ...
RecognizeWhole ==
    /\ pc = "start"
    /\ Duration(total_samples) <= chunk_duration
    /\ \E result \in RecognizerResults :
          /\ results' = Append(results, result)
          /\ IF result.kind = "raise"
             THEN pc' = "failed" /\ UNCHANGED sentences
             ELSE /\ pc' = "done"
                  /\ sentences' =
                        IF result.kind = "tokens"
                        THEN tokens_to_sentences(result.tokens,
                                                 result.timestamps)
                        ELSE << [text |-> result.text, start |-> 0,
                                 end |-> Duration(total_samples)] >>
    /\ UNCHANGED <<total_samples, chunk_duration, overlap_duration,
                   sample_rate, chunks, tokens, timestamps, i, all_tokens,
                   all_timestamps>>

\* chunks = chunk_audio(audio, chunk_duration=chunk_duration,
\*                      overlap_duration=15.0); a ValueError reaches main
SplitIntoChunks ==
    /\ pc = "start"
    /\ Duration(total_samples) > chunk_duration
    /\ LET r == chunk_audio(total_samples, chunk_duration, overlap_duration,
                            sample_rate)
       IN  /\ chunks' = r.chunks
           /\ pc' = IF r.raised THEN "failed" ELSE "loop"
    /\ i' = 0
    /\ UNCHANGED <<total_samples, chunk_duration, overlap_duration,
                   sample_rate, tokens, timestamps, sentences, all_tokens,
                   all_timestamps, results>>

\* one iteration of "for i, (chunk, chunk_start, chunk_end) in
\* enumerate(chunks)"
ProcessChunk ==
    /\ pc = "loop"
    /\ i < Len(chunks)
    /\ \E result \in RecognizerResults :
          /\ results' = Append(results, result)
          /\ IF result.kind = "raise"
             THEN pc' = "failed" /\ UNCHANGED <<i, all_tokens, all_timestamps>>
             ELSE /\ pc' = "loop"
                  /\ i' = i + 1
                  /\ IF result.kind = "tokens"
                     THEN LET m == Merge(i, chunks[i + 1].start_time, result,
                                         all_tokens, all_timestamps)
                          IN  /\ all_tokens' = m.tokens
                              /\ all_timestamps' = m.timestamps
                     ELSE UNCHANGED <<all_tokens, all_timestamps>>
    /\ UNCHANGED <<total_samples, chunk_duration, overlap_duration,
                   sample_rate, chunks, tokens, timestamps, sentences>>

\* return tokens_to_sentences(all_tokens, all_timestamps)
ReturnSentences ==
    /\ pc = "loop"
    /\ i = Len(chunks)
    /\ sentences' = tokens_to_sentences(all_tokens, all_timestamps)
    /\ pc' = "done"
    /\ UNCHANGED <<total_samples, chunk_duration, overlap_duration,
                   sample_rate, chunks, tokens, timestamps, i, all_tokens,
                   all_timestamps, results>>

Next ==
    \/ RecognizeWhole
    \/ SplitIntoChunks
    \/ ProcessChunk
    \/ ReturnSentences

Spec == Init /\ [][Next]_vars

(***************************************************************************)
(* Properties of the pipeline (checked under Spec).                        *)
(***************************************************************************)

\* the run takes the chunked path: the audio is longer than chunk_duration
LongAudio == (total_samples * 100) \div 16000 > chunk_duration

\* result k has tokens and timestamps, lists of the same length
WellFormed(r) == r.kind = "tokens" /\ Len(r.tokens) = Len(r.timestamps)

\* every window-local timestamp of r lies within the window w it came from
InWindow(r, w) ==
    \A k \in 1 .. Len(r.timestamps) :
        0 <= r.timestamps[k] /\ r.timestamps[k] <= w.end_time - w.start_time

\* every result so far is a token result with lists of equal length and
\* non-decreasing window-local timestamps
AllTokenSeries ==
    \A k \in 1 .. Len(results) :
        WellFormed(results[k]) /\ NonDecreasing(results[k].timestamps)

\* C2 as stated: for per-window token lists of equal length with
\* non-decreasing window-local timestamps, all_timestamps is non-decreasing
\* after each merge.
C2_AsStated ==
    (LongAudio /\ AllTokenSeries) => NonDecreasing(all_timestamps)

\* C2 amended: for per-window token lists of equal length with
\* non-decreasing window-local timestamps, none of them beyond the duration
\* of its own window, all_timestamps is non-decreasing after each merge.
C2_StitchMonotone ==
    (/\ LongAudio
     /\ AllTokenSeries
     /\ \A k \in 1 .. Len(results) : InWindow(results[k], chunks[k]))
        => NonDecreasing(all_timestamps)

\* C2 witness: three windows of two in-window tokens each were merged; some
\* tokens of the later windows were dropped and some were kept.
C2_Witness ==
    /\ pc = "done"
    /\ LongAudio
    /\ AllTokenSeries
    /\ Len(results) = 3
    /\ \A k \in 1 .. 3 : /\ InWindow(results[k], chunks[k])
                         /\ Len(results[k].tokens) = 2
    /\ Len(all_timestamps) > 2
    /\ Len(all_timestamps) < 6
    /\ all_timestamps[1] < all_timestamps[Len(all_timestamps)]

Occurrences(w, toks) == Cardinality({ k \in 1 .. Len(toks) : toks[k] = w })

\* the two windows of a two-window run both recognized word w once, inside
\* the region they share, at global times at most Jitter apart
DuplicatedAcrossBoundary(w) ==
    /\ Len(chunks) = 2
    /\ Len(results) = 2
    /\ AllTokenSeries
    /\ \A k \in 1 .. 2 : /\ InWindow(results[k], chunks[k])
                         /\ Occurrences(w, results[k].tokens) = 1
    /\ \E a \in 1 .. Len(results[1].tokens) :
       \E b \in 1 .. Len(results[2].tokens) :
          LET g1 == results[1].timestamps[a] + chunks[1].start_time
              g2 == results[2].timestamps[b] + chunks[2].start_time
          IN  /\ results[1].tokens[a] = w
              /\ results[2].tokens[b] = w
              /\ chunks[2].start_time <= g1 /\ g1 < chunks[1].end_time
              /\ chunks[2].start_time <= g2 /\ g2 < chunks[1].end_time
              /\ g1 - g2 <= Jitter
              /\ g2 - g1 <= Jitter

\* C3: when two consecutive windows both recognized the same word inside
\* their shared overlap region, at global timestamps that are equal or differ
\* by a small jitter in either direction, the merged token stream contains
\* that word exactly once.
C3_NoBoundaryDuplicate ==
    pc = "done" =>
        \A w \in Words :
            DuplicatedAcrossBoundary(w) => Occurrences(w, all_tokens) = 1

\* C4: when stride = chunk_samples - overlap_samples <= 0 and the audio is
\* long enough to be windowed, the run fails before any recognizer call; it
\* never returns a sentence list.
C4_NonPositiveStrideFails ==
    (LongAudio /\ ArgStride <= 0) => (pc # "done" /\ results = <<>>)

\* C5: when a window's result has token and timestamp lists of different
\* lengths, the transcription aborts; it never returns sentences.
C5_MalformedResultAborts ==
    (pc = "done" /\ LongAudio) =>
        \A k \in 1 .. Len(results) :
            results[k].kind = "tokens" =>
                Len(results[k].tokens) = Len(results[k].timestamps)

\* C6: for audio longer than chunk_duration whose recognizer returns
\* plain-text results, the recognized text appears in the returned
\* sentences; the run does not return an empty list because the plain-text
\* results were skipped.
C6_PlainTextNotDropped ==
    (/\ pc = "done"
     /\ LongAudio
     /\ results # <<>>
     /\ \A k \in 1 .. Len(results) : results[k].kind = "text")
        => /\ sentences # <<>>
           /\ \A k \in 1 .. Len(results) :
                 \E j \in 1 .. Len(sentences) :
                     sentences[j].text = results[k].text

====
